---- MODULE Spec2Model ----
(***************************************************************************)
(* AutoFlip-inspired video reframing (server/services/autoflip-mediapipe). *)
(*                                                                         *)
(* The crop planner (calculate_autoflip_crop), the temporal smoother       *)
(* (smooth_crop_transitions) and the driver (process_video_autoflip, main) *)
(* are modelled in exact rational arithmetic.  Normalised coordinates are  *)
(* fractions num/den, a target ratio is a pair <<num, den>>, confidences   *)
(* are in hundredths.  Python's int() truncates toward zero (TruncDiv).    *)
(* The detector (MediaPipe) is an external collaborator: its result is an  *)
(* input drawn from Saliences.  Timestamps (frame_idx / fps, fps > 0) are  *)
(* not part of the state.                                                  *)
(***************************************************************************)
EXTENDS Integers, Sequences, FiniteSets, TLC

VARIABLES
    pc,                   \* position of the run
    input_exists,         \* os.path.exists(args.input_video)
    can_open,             \* whether cv2.VideoCapture can open the input
    cap,                  \* the video stream handle
    frame_width, frame_height,
    frame_count,          \* CAP_PROP_FRAME_COUNT, the frames the stream yields
    sample_rate,
    target_aspect_ratio,  \* the label, e.g. "9:16"
    frame_idx,
    frame_analyses,       \* sampled analyses: [frame_idx, crop_info]
    smoothed_crops,
    salient_regions,      \* the salience handed to the crop planner
    crop_info,            \* the crop planner's result
    exit_code,
    output_written        \* the output JSON file exists

vars == <<pc, input_exists, can_open, cap, frame_width, frame_height, frame_count,
          sample_rate, target_aspect_ratio, frame_idx, frame_analyses,
          smoothed_crops, salient_regions, crop_info, exit_code, output_written>>

----------------------------------------------------------------------------
(* Bounds *)

MaxDim == 8          \* frame sides of the crop planner's inputs: 1..MaxDim
MaxVideoDim == 3     \* frame sides of the videos the driver reads
MaxFrames == 6       \* frames of a video: 0..MaxFrames
MaxSampleRate == 2   \* --sample-rate: 1..MaxSampleRate
MaxLen == 3          \* analyses handed to the smoother: 0..MaxLen
MaxIdx == 4          \* frame indices of those analyses: 0..MaxIdx

----------------------------------------------------------------------------
(* Arithmetic *)

Max(a, b) == IF a >= b THEN a ELSE b
Min(a, b) == IF a <= b THEN a ELSE b
Abs(a) == IF a >= 0 THEN a ELSE -a

\* int(n / d) for d > 0: Python's int() drops the fraction, toward zero
TruncDiv(n, d) == IF n >= 0 THEN n \div d ELSE -((-n) \div d)

\* round(n / d) for n >= 0, d > 0: nearest integer, a tie goes to the even one
RoundDiv(n, d) ==
    LET q == n \div d
        r == n % d
    IN  IF 2 * r < d THEN q
        ELSE IF 2 * r > d THEN q + 1
        ELSE IF q % 2 = 0 THEN q ELSE q + 1

----------------------------------------------------------------------------
(* Crop planner: calculate_autoflip_crop *)

ValidLabels == {"9:16", "16:9", "1:1", "4:3"}
Labels == ValidLabels \cup {"21:9"}      \* one label the planner does not know

\* the target ratio as <<numerator, denominator>>
TargetRatio(label) ==
    CASE label = "9:16" -> <<9, 16>>
      [] label = "16:9" -> <<16, 9>>
      [] label = "1:1"  -> <<1, 1>>
      [] label = "4:3"  -> <<4, 3>>
      [] OTHER          -> <<9, 16>>

\* the comparison of the two ratios turned around
NeedsWidthCropInverted(W, H, label) ==
    LET tr == TargetRatio(label) IN tr[1] * H > tr[2] * W

\* target_ratio < current_ratio, current_ratio = frame_width / frame_height
NeedsWidthCrop(W, H, label) ==
    LET tr == TargetRatio(label) IN tr[1] * H < tr[2] * W

\* the reduced width rounded to the nearest integer instead of truncated
CropWidthForRounded(H, label) ==
    LET tr == TargetRatio(label) IN RoundDiv(H * tr[1], tr[2])

\* int(crop_height * target_ratio)
CropWidthFor(H, label) ==
    LET tr == TargetRatio(label) IN TruncDiv(H * tr[1], tr[2])

\* the reduced height from a product instead of a quotient
CropHeightForMultiplied(W, label) ==
    LET tr == TargetRatio(label) IN TruncDiv(W * tr[1], tr[2])

\* int(crop_width / target_ratio)
CropHeightFor(W, label) ==
    LET tr == TargetRatio(label) IN TruncDiv(W * tr[2], tr[1])

FallbackConfidence == 10    \* 0.1, in hundredths

NoSalience == [present |-> FALSE, bbox |-> <<0, 0, 0, 0>>, den |-> 1, confidence |-> 0]

\* the centre taken at the box's origin, the half extent forgotten
CenterTwiceOriginOnly(origin, extent) == 2 * origin

\* centre of the union box along one axis, times 2 * den:
\* center = origin + extent / 2
CenterTwice(origin, extent) == 2 * origin + extent

\* the centred window without the clamp to the frame
CenteredOffsetUnclamped(origin, extent, den, frame_side, crop_side) ==
    TruncDiv(CenterTwice(origin, extent) * frame_side - crop_side * den, 2 * den)

\* int((center * frame_side) - (crop_side / 2)), then max(0, min(., frame_side - crop_side))
CenteredOffset(origin, extent, den, frame_side, crop_side) ==
    LET raw == TruncDiv(CenterTwice(origin, extent) * frame_side - crop_side * den, 2 * den)
    IN  Max(0, Min(raw, frame_side - crop_side))

SalientCrop(W, H, sal, label) ==
    IF NeedsWidthCrop(W, H, label)
    THEN LET crop_width == CropWidthFor(H, label)
         IN  [x |-> CenteredOffset(sal.bbox[1], sal.bbox[3], sal.den, W, crop_width),
              y |-> 0, width |-> crop_width, height |-> H,
              confidence |-> sal.confidence, method |-> "autoflip_salient"]
    ELSE LET crop_height == CropHeightFor(W, label)
         IN  [x |-> 0,
              y |-> CenteredOffset(sal.bbox[2], sal.bbox[4], sal.den, H, crop_height),
              width |-> W, height |-> crop_height,
              confidence |-> sal.confidence, method |-> "autoflip_salient"]

FallbackCrop(W, H, label) ==
    IF NeedsWidthCrop(W, H, label)
    THEN LET crop_width == CropWidthFor(H, label)
         IN  [x |-> (W - crop_width) \div 2, y |-> 0,
              width |-> crop_width, height |-> H,
              confidence |-> FallbackConfidence, method |-> "center_crop_fallback"]
    ELSE LET crop_height == CropHeightFor(W, label)
         IN  [x |-> 0, y |-> (H - crop_height) \div 2,
              width |-> W, height |-> crop_height,
              confidence |-> FallbackConfidence, method |-> "center_crop_fallback"]

calculate_autoflip_crop(W, H, sal, label) ==
    IF sal.present THEN SalientCrop(W, H, sal, label) ELSE FallbackCrop(W, H, label)

\* crop_info as calculate_autoflip_crop first builds it: the full frame
InitialCropInfo(W, H) ==
    [x |-> 0, y |-> 0, width |-> W, height |-> H,
     confidence |-> 0, method |-> "center_crop"]

----------------------------------------------------------------------------
(* Inputs of the crop planner *)

\* union boxes in eighths of the frame (exact in binary floating point, so
\* the planner's float arithmetic is the exact arithmetic above); the
\* detector may report a box that reaches outside the frame
BBoxOrigins == {-2, 0, 3, 6, 8}
BBoxExtents == {0, 2, 4}
SalienceConfidences == {90}

\* the single face region (0.4, 0.4, 0.2, 0.2): its centre 0.5 is exact
ExampleSalience == [present |-> TRUE, bbox |-> <<4, 4, 2, 2>>, den |-> 10, confidence |-> 90]

Saliences ==
    {NoSalience, ExampleSalience} \cup
    {[present |-> TRUE, bbox |-> <<bx, by, bw, bh>>, den |-> 8, confidence |-> c] :
        bx \in BBoxOrigins, by \in BBoxOrigins, bw \in BBoxExtents,
        bh \in BBoxExtents, c \in SalienceConfidences}

ExampleFrames == {<<1920, 1080>>, <<1070, 1920>>, <<100, 100>>}
FrameSizes == ((1..MaxDim) \X (1..MaxDim)) \cup ExampleFrames

----------------------------------------------------------------------------
(* Temporal smoother: smooth_crop_transitions *)

\* the interpolation running from the next crop back to the current one
InterpolateFromNext(current, next, frame_offset, frame_diff) ==
    IF frame_diff > 0
    THEN TruncDiv(next * frame_diff + (current - next) * frame_offset, frame_diff)
    ELSE next

\* current + (next - current) * interpolation_factor, through int();
\* interpolation_factor = frame_offset / frame_diff if frame_diff > 0 else 0
Interpolate(current, next, frame_offset, frame_diff) ==
    IF frame_diff > 0
    THEN TruncDiv(current * frame_diff + (next - current) * frame_offset, frame_diff)
    ELSE current

\* the interpolated confidence is not truncated: it is kept as a fraction
InterpolateConfidence(current, next, frame_offset, frame_diff) ==
    IF frame_diff > 0
    THEN [num |-> current * frame_diff + (next - current) * frame_offset,
          den |-> frame_diff]
    ELSE [num |-> current, den |-> 1]

InterpolatedCrop(current_analysis, next_analysis, frame_offset) ==
    LET current_crop == current_analysis.crop_info
        next_crop == next_analysis.crop_info
        frame_diff == next_analysis.frame_idx - current_analysis.frame_idx
    IN  [frame_idx |-> current_analysis.frame_idx + frame_offset,
         x |-> Interpolate(current_crop.x, next_crop.x, frame_offset, frame_diff),
         y |-> Interpolate(current_crop.y, next_crop.y, frame_offset, frame_diff),
         width |-> Interpolate(current_crop.width, next_crop.width, frame_offset, frame_diff),
         height |-> Interpolate(current_crop.height, next_crop.height, frame_offset, frame_diff),
         confidence |-> InterpolateConfidence(current_crop.confidence, next_crop.confidence,
                                              frame_offset, frame_diff),
         method |-> "interpolated"]

\* range(frame_diff + 1): the run also emits the slot of the next sample
InterpolatedRunInclusive(current_analysis, next_analysis) ==
    LET frame_diff == next_analysis.frame_idx - current_analysis.frame_idx
    IN  IF frame_diff < 0 THEN <<>>
        ELSE [k \in 1..(frame_diff + 1) |->
                 InterpolatedCrop(current_analysis, next_analysis, k - 1)]

\* a duplicate sample index takes one slot with interpolation factor 0
InterpolatedRunDuplicateSlot(current_analysis, next_analysis) ==
    LET frame_diff == next_analysis.frame_idx - current_analysis.frame_idx
    IN  IF frame_diff < 0 THEN <<>>
        ELSE [k \in 1..Max(1, frame_diff) |->
                 InterpolatedCrop(current_analysis, next_analysis, k - 1)]

\* for frame_offset in range(frame_diff): empty when frame_diff <= 0
InterpolatedRun(current_analysis, next_analysis) ==
    LET frame_diff == next_analysis.frame_idx - current_analysis.frame_idx
    IN  IF frame_diff <= 0 THEN <<>>
        ELSE [k \in 1..frame_diff |->
                 InterpolatedCrop(current_analysis, next_analysis, k - 1)]

\* the crop appended for the last analysis
LastCrop(last_analysis) ==
    [frame_idx |-> last_analysis.frame_idx,
     x |-> last_analysis.crop_info.x,
     y |-> last_analysis.crop_info.y,
     width |-> last_analysis.crop_info.width,
     height |-> last_analysis.crop_info.height,
     confidence |-> [num |-> last_analysis.crop_info.confidence, den |-> 1],
     method |-> last_analysis.crop_info.method]

RECURSIVE InterpolatedRuns(_, _)
\* for i in range(len(frame_analyses) - 1), from pair i on
InterpolatedRuns(analyses, i) ==
    IF i >= Len(analyses) THEN <<>>
    ELSE InterpolatedRun(analyses[i], analyses[i + 1]) \o InterpolatedRuns(analyses, i + 1)

smooth_crop_transitions(analyses) ==
    IF analyses = <<>> THEN <<>>
    ELSE InterpolatedRuns(analyses, 1) \o <<LastCrop(analyses[Len(analyses)])>>

----------------------------------------------------------------------------
(* The crop planner on its own: one call on any frame size, label and salience *)

Idle ==
    /\ input_exists = TRUE /\ can_open = TRUE /\ cap = "none"
    /\ frame_count = 0 /\ sample_rate = 1 /\ frame_idx = 0
    /\ exit_code = -1 /\ output_written = FALSE

InitCrop ==
    /\ pc = "call"
    /\ Idle
    /\ \E size \in FrameSizes : frame_width = size[1] /\ frame_height = size[2]
    /\ target_aspect_ratio \in Labels
    /\ salient_regions \in Saliences
    /\ crop_info = InitialCropInfo(frame_width, frame_height)
    /\ frame_analyses = <<>>
    /\ smoothed_crops = <<>>

CalculateCrop ==
    /\ pc = "call"
    /\ crop_info' = calculate_autoflip_crop(frame_width, frame_height,
                                            salient_regions, target_aspect_ratio)
    /\ pc' = "done"
    /\ UNCHANGED <<input_exists, can_open, cap, frame_width, frame_height, frame_count,
                   sample_rate, target_aspect_ratio, frame_idx, frame_analyses,
                   smoothed_crops, salient_regions, exit_code, output_written>>

NextCrop == CalculateCrop

SpecCrop == InitCrop /\ [][NextCrop]_vars

----------------------------------------------------------------------------
(* The smoother on its own: one call on any list of sampled analyses *)

\* crops a sampled analysis may carry (frames up to 8 x 8)
SampleCrops ==
    {[x |-> 0, y |-> 0, width |-> 4, height |-> 8,
      confidence |-> 90, method |-> "autoflip_salient"],
     [x |-> 3, y |-> 0, width |-> 4, height |-> 8,
      confidence |-> 10, method |-> "center_crop_fallback"],
     [x |-> 0, y |-> 2, width |-> 8, height |-> 4,
      confidence |-> 55, method |-> "autoflip_salient"]}

Analyses == [frame_idx : 0..MaxIdx, crop_info : SampleCrops]

AnalysisLists == UNION {[1..n -> Analyses] : n \in 0..MaxLen}

InitSmooth ==
    /\ pc = "call"
    /\ Idle
    /\ frame_width = 8 /\ frame_height = 8
    /\ target_aspect_ratio = "9:16"
    /\ salient_regions = NoSalience
    /\ crop_info = InitialCropInfo(frame_width, frame_height)
    /\ frame_analyses \in AnalysisLists
    /\ smoothed_crops = <<>>

SmoothCrops ==
    /\ pc = "call"
    /\ smoothed_crops' = smooth_crop_transitions(frame_analyses)
    /\ pc' = "done"
    /\ UNCHANGED <<input_exists, can_open, cap, frame_width, frame_height, frame_count,
                   sample_rate, target_aspect_ratio, frame_idx, frame_analyses,
                   salient_regions, crop_info, exit_code, output_written>>

NextSmooth == SmoothCrops

SpecSmooth == InitSmooth /\ [][NextSmooth]_vars

----------------------------------------------------------------------------
(* The driver: main and process_video_autoflip *)

VideoSizes == ((1..MaxVideoDim) \X (1..MaxVideoDim)) \cup {<<1920, 1080>>}

\* sample_interval = max(1, frame_count // sample_rate)
sample_interval == Max(1, frame_count \div sample_rate)

Init ==
    /\ pc = "main"
    /\ input_exists \in BOOLEAN
    /\ can_open \in BOOLEAN
    /\ (~input_exists => ~can_open)
    /\ cap = "none"
    /\ \E size \in VideoSizes : frame_width = size[1] /\ frame_height = size[2]
    /\ frame_count \in 0..MaxFrames
    /\ sample_rate \in 1..MaxSampleRate
    /\ target_aspect_ratio \in ValidLabels       \* argparse choices
    /\ frame_idx = 0
    /\ frame_analyses = <<>>
    /\ smoothed_crops = <<>>
    /\ salient_regions = NoSalience
    /\ crop_info = InitialCropInfo(frame_width, frame_height)
    /\ exit_code = -1
    /\ output_written = FALSE

\* main: the input path is checked before anything is constructed
CheckInput ==
    /\ pc = "main"
    /\ IF input_exists
       THEN pc' = "open" /\ UNCHANGED exit_code
       ELSE pc' = "exit" /\ exit_code' = 1
    /\ UNCHANGED <<input_exists, can_open, cap, frame_width, frame_height, frame_count,
                   sample_rate, target_aspect_ratio, frame_idx, frame_analyses,
                   smoothed_crops, salient_regions, crop_info, output_written>>

\* cap = cv2.VideoCapture(input_path); if not cap.isOpened(): return {'error': ...}
OpenVideo ==
    /\ pc = "open"
    /\ IF can_open
       THEN cap' = "open" /\ pc' = "read"
       ELSE cap' = "unopened" /\ pc' = "failed"
    /\ UNCHANGED <<input_exists, can_open, frame_width, frame_height, frame_count,
                   sample_rate, target_aspect_ratio, frame_idx, frame_analyses,
                   smoothed_crops, salient_regions, crop_info, exit_code, output_written>>

\* one turn of the read loop with ret true: the frame is analysed when
\* frame_idx % sample_interval == 0
ReadFrame ==
    /\ pc = "read"
    /\ frame_idx < frame_count
    /\ IF frame_idx % sample_interval = 0
       THEN \E crop \in {calculate_autoflip_crop(frame_width, frame_height, sal,
                                                   target_aspect_ratio) : sal \in Saliences} :
               frame_analyses' = Append(frame_analyses,
                                        [frame_idx |-> frame_idx, crop_info |-> crop])
       ELSE UNCHANGED frame_analyses
    /\ frame_idx' = frame_idx + 1
    /\ UNCHANGED <<pc, input_exists, can_open, cap, frame_width, frame_height, frame_count,
                   sample_rate, target_aspect_ratio, smoothed_crops, salient_regions,
                   crop_info, exit_code, output_written>>

\* ret false: break, then cap.release()
EndOfStream ==
    /\ pc = "read"
    /\ frame_idx >= frame_count
    /\ cap' = "released"
    /\ pc' = "smooth"
    /\ UNCHANGED <<input_exists, can_open, frame_width, frame_height, frame_count,
                   sample_rate, target_aspect_ratio, frame_idx, frame_analyses,
                   smoothed_crops, salient_regions, crop_info, exit_code, output_written>>

\* smoothed_crops = self.smooth_crop_transitions(...); return result
SmoothAndReturn ==
    /\ pc = "smooth"
    /\ smoothed_crops' = smooth_crop_transitions(frame_analyses)
    /\ pc' = "returned"
    /\ UNCHANGED <<input_exists, can_open, cap, frame_width, frame_height, frame_count,
                   sample_rate, target_aspect_ratio, frame_idx, frame_analyses,
                   salient_regions, crop_info, exit_code, output_written>>

\* the error result is not noticed: the report is written and the run ends normally
ReportErrorIgnored ==
    /\ pc = "failed"
    /\ output_written' = TRUE
    /\ exit_code' = 0
    /\ pc' = "exit"
    /\ UNCHANGED <<input_exists, can_open, cap, frame_width, frame_height, frame_count,
                   sample_rate, target_aspect_ratio, frame_idx, frame_analyses,
                   smoothed_crops, salient_regions, crop_info>>

\* main: if 'error' in result: sys.exit(1)
ReportError ==
    /\ pc = "failed"
    /\ exit_code' = 1
    /\ pc' = "exit"
    /\ UNCHANGED <<input_exists, can_open, cap, frame_width, frame_height, frame_count,
                   sample_rate, target_aspect_ratio, frame_idx, frame_analyses,
                   smoothed_crops, salient_regions, crop_info, output_written>>

\* main: json.dump(result, f), then the run ends normally
SaveResults ==
    /\ pc = "returned"
    /\ output_written' = TRUE
    /\ exit_code' = 0
    /\ pc' = "exit"
    /\ UNCHANGED <<input_exists, can_open, cap, frame_width, frame_height, frame_count,
                   sample_rate, target_aspect_ratio, frame_idx, frame_analyses,
                   smoothed_crops, salient_regions, crop_info>>

Next ==
    \/ CheckInput
    \/ OpenVideo
    \/ ReadFrame
    \/ EndOfStream
    \/ SmoothAndReturn
    \/ ReportError
    \/ SaveResults

Spec == Init /\ [][Next]_vars

----------------------------------------------------------------------------
(* Properties of the crop planner (SpecCrop) *)

Planned == pc = "done"

InFrame(c, W, H) ==
    /\ c.x >= 0
    /\ c.y >= 0
    /\ c.x + c.width <= W
    /\ c.y + c.height <= H

\* abs(width/height - n/d) <= k/(d * min(width, height)), for width, height >= 1
RatioWithin(c, label, k) ==
    LET tr == TargetRatio(label)
    IN  Abs(c.width * tr[2] - tr[1] * c.height) * Min(c.width, c.height) <= k * c.height

\* (checked under Spec, the driver)
\* C1: every crop the program produces lies inside the frame: the crop of
\* every sampled analysis, and every element of smoothed_crops (interpolated
\* elements included), has x >= 0, y >= 0, x + width <= frame_width and
\* y + height <= frame_height.
C1_CropsInFrame ==
    /\ \A i \in 1..Len(frame_analyses) :
          InFrame(frame_analyses[i].crop_info, frame_width, frame_height)
    /\ \A i \in 1..Len(smoothed_crops) :
          InFrame(smoothed_crops[i], frame_width, frame_height)

\* an interpolated crop strictly between a crop at the left or top edge and
\* one clamped at the right or bottom edge
C1_Witness ==
    /\ pc = "returned"
    /\ \E i \in 1..Len(smoothed_crops) :
          LET c == smoothed_crops[i]
          IN  /\ c.method = "interpolated"
              /\ \/ c.x > 0 /\ c.x + c.width < frame_width
                 \/ c.y > 0 /\ c.y + c.height < frame_height
    /\ \E j \in 1..Len(frame_analyses) :
          LET c == frame_analyses[j].crop_info
          IN  /\ c.method = "autoflip_salient"
              /\ \/ c.x > 0 /\ c.x + c.width = frame_width
                 \/ c.y > 0 /\ c.y + c.height = frame_height

\* C2 as stated: for every valid label the planned crop has
\* abs(width/height - targetRatio) <= 1/min(width, height).
C2_RatioWithinOneOverMin ==
    (Planned /\ target_aspect_ratio \in ValidLabels
       /\ crop_info.width >= 1 /\ crop_info.height >= 1)
    => RatioWithin(crop_info, target_aspect_ratio, TargetRatio(target_aspect_ratio)[2])

\* C2 amended: for every valid label and every crop with width, height >= 1,
\* abs(width/height - targetRatio) <= max(1, targetRatio)/min(width, height);
\* the bound 1/min(width, height) holds for 9:16, 1:1 and 4:3, and for 16:9
\* when the width is the cropped side.
C2_RatioWithinTruncation ==
    (Planned /\ target_aspect_ratio \in ValidLabels
       /\ crop_info.width >= 1 /\ crop_info.height >= 1)
    => LET tr == TargetRatio(target_aspect_ratio)
       IN  /\ RatioWithin(crop_info, target_aspect_ratio, Max(tr[1], tr[2]))
           /\ (target_aspect_ratio # "16:9" \/ crop_info.height = frame_height)
                 => RatioWithin(crop_info, target_aspect_ratio, tr[2])

\* a 16:9 crop whose truncated height puts it further than 1/min(width, height)
\* from the target ratio, in each branch
C2_Witness ==
    /\ Planned
    /\ target_aspect_ratio = "16:9"
    /\ crop_info.method = "center_crop_fallback"
    /\ crop_info.width >= 1 /\ crop_info.height >= 1
    /\ crop_info.height < frame_height
    /\ ~RatioWithin(crop_info, target_aspect_ratio, 9)

\* x is int(a / (2 * den)) clamped to [0, hi], for a = 2 * den * (centre in
\* pixels - crop side / 2)
CentredClamped(x, a, den, hi) ==
    /\ 0 <= x /\ x <= hi
    /\ (x > 0 => 2 * den * x <= a)
    /\ (x < hi => a < 2 * den * (x + 1))

IsExample ==
    /\ frame_width = 1920 /\ frame_height = 1080
    /\ target_aspect_ratio = "9:16"
    /\ salient_regions = ExampleSalience

\* C3 as stated: with a salient bbox and targetRatio < frameWidth/frameHeight
\* the crop keeps the frame height, y = 0, width = round(frameHeight * targetRatio)
\* and x is the window centred on cx, clamped (symmetrically otherwise); the
\* 1920x1080 example yields x 656, y 0, width 608, height 1080.
C3_RoundedSalientCrop ==
    (Planned /\ salient_regions.present) =>
       LET tr == TargetRatio(target_aspect_ratio)
           b == salient_regions.bbox
           den == salient_regions.den
           c == crop_info
       IN  /\ c.method = "autoflip_salient"
           /\ IF tr[1] * frame_height < tr[2] * frame_width
              THEN /\ c.height = frame_height /\ c.y = 0
                   /\ c.width = RoundDiv(frame_height * tr[1], tr[2])
                   /\ CentredClamped(c.x, (2 * b[1] + b[3]) * frame_width - c.width * den,
                                     den, frame_width - c.width)
              ELSE /\ c.width = frame_width /\ c.x = 0
                   /\ c.height = RoundDiv(frame_width * tr[2], tr[1])
                   /\ CentredClamped(c.y, (2 * b[2] + b[4]) * frame_height - c.height * den,
                                     den, frame_height - c.height)
           /\ IsExample => (c.x = 656 /\ c.y = 0 /\ c.width = 608 /\ c.height = 1080)

\* C3 amended: the reduced side is truncated, not rounded: width =
\* floor(frameHeight * targetRatio) and x = int(cx * frameWidth - width / 2)
\* clamped to [0, frameWidth - width] (symmetrically height =
\* floor(frameWidth / targetRatio)); the 1920x1080 example yields x 656, y 0,
\* width 607, height 1080, method autoflip_salient.
C3_TruncatedSalientCrop ==
    (Planned /\ salient_regions.present) =>
       LET tr == TargetRatio(target_aspect_ratio)
           b == salient_regions.bbox
           den == salient_regions.den
           c == crop_info
       IN  /\ c.method = "autoflip_salient"
           /\ IF tr[1] * frame_height < tr[2] * frame_width
              THEN /\ c.height = frame_height /\ c.y = 0
                   /\ c.width = (frame_height * tr[1]) \div tr[2]
                   /\ CentredClamped(c.x, (2 * b[1] + b[3]) * frame_width - c.width * den,
                                     den, frame_width - c.width)
              ELSE /\ c.width = frame_width /\ c.x = 0
                   /\ c.height = (frame_width * tr[2]) \div tr[1]
                   /\ CentredClamped(c.y, (2 * b[2] + b[4]) * frame_height - c.height * den,
                                     den, frame_height - c.height)
           /\ IsExample => (c.x = 656 /\ c.y = 0 /\ c.width = 607 /\ c.height = 1080)

\* the 1920x1080 example has been planned
C3_Witness == Planned /\ IsExample /\ crop_info.method = "autoflip_salient"

\* C10 as stated: the crop reduces exactly one of width and height below the
\* frame, and the other equals the frame dimension.
C10_ExactlyOneAxisReduced ==
    Planned =>
       \/ crop_info.width = frame_width /\ crop_info.height < frame_height
       \/ crop_info.height = frame_height /\ crop_info.width < frame_width

\* C10 amended: at most one of width and height is reduced, the other equals
\* the frame dimension; neither is reduced exactly when frameWidth/frameHeight
\* equals the target ratio.
C10_AtMostOneAxisReduced ==
    Planned =>
       LET tr == TargetRatio(target_aspect_ratio)
       IN  /\ crop_info.width <= frame_width /\ crop_info.height <= frame_height
           /\ crop_info.width = frame_width \/ crop_info.height = frame_height
           /\ (crop_info.width = frame_width /\ crop_info.height = frame_height)
                 <=> tr[1] * frame_height = tr[2] * frame_width

\* the 100x100 frame with target 1:1 and no salience: the full frame
C10_Witness ==
    /\ Planned
    /\ frame_width = 100 /\ frame_height = 100 /\ target_aspect_ratio = "1:1"
    /\ ~salient_regions.present
    /\ crop_info.width = 100 /\ crop_info.height = 100

----------------------------------------------------------------------------
(* Properties of the smoother (SpecSmooth) *)

Smoothed == pc = "done"

NonDecreasing(analyses) ==
    \A i \in 1..(Len(analyses) - 1) : analyses[i].frame_idx <= analyses[i + 1].frame_idx

\* the geometry and confidence of a smoothed element are those of the crop
SameCrop(element, crop) ==
    /\ element.x = crop.x /\ element.y = crop.y
    /\ element.width = crop.width /\ element.height = crop.height
    /\ element.confidence.num = crop.confidence * element.confidence.den

\* C4: for a non-empty list of analyses with non-decreasing frame indices the
\* smoother returns exactly one crop for each frame index from the first to
\* the last sampled index, in ascending order (length last - first + 1); for
\* an empty list it returns an empty list.
C4_OneCropPerSampledSpanFrame ==
    Smoothed =>
       /\ frame_analyses = <<>> => smoothed_crops = <<>>
       /\ (frame_analyses # <<>> /\ NonDecreasing(frame_analyses)) =>
             LET first == frame_analyses[1].frame_idx
                 last == frame_analyses[Len(frame_analyses)].frame_idx
             IN  /\ Len(smoothed_crops) = last - first + 1
                 /\ \A k \in 1..Len(smoothed_crops) :
                       smoothed_crops[k].frame_idx = first + k - 1

\* three samples, the first two on the same frame, the third two or more
\* frames later
C4_Witness ==
    /\ Smoothed
    /\ Len(frame_analyses) = 3
    /\ frame_analyses[1].frame_idx = frame_analyses[2].frame_idx
    /\ frame_analyses[3].frame_idx >= frame_analyses[2].frame_idx + 2
    /\ Len(smoothed_crops) >= 3

\* C5: for two analyses A at fa and B at fb, fa < fb, the first element has
\* A.crop's x, y, width, height and confidence, the last element (offset
\* fb - fa) is B.crop with B.crop's method, and every other element is tagged
\* interpolated.
C5_InterpolationEndpoints ==
    (Smoothed /\ Len(frame_analyses) = 2
       /\ frame_analyses[1].frame_idx < frame_analyses[2].frame_idx) =>
       LET A == frame_analyses[1]
           B == frame_analyses[2]
           n == B.frame_idx - A.frame_idx + 1
       IN  /\ Len(smoothed_crops) = n
           /\ SameCrop(smoothed_crops[1], A.crop_info)
           /\ SameCrop(smoothed_crops[n], B.crop_info)
           /\ smoothed_crops[n].confidence.den = 1
           /\ smoothed_crops[n].method = B.crop_info.method
           /\ \A k \in 1..(n - 1) : smoothed_crops[k].method = "interpolated"

\* two samples with different crops, several frames apart
C5_Witness ==
    /\ Smoothed
    /\ Len(frame_analyses) = 2
    /\ frame_analyses[2].frame_idx >= frame_analyses[1].frame_idx + 3
    /\ frame_analyses[1].crop_info.x # frame_analyses[2].crop_info.x
    /\ frame_analyses[1].crop_info.confidence # frame_analyses[2].crop_info.confidence
    /\ frame_analyses[1].crop_info.method = "autoflip_salient"
    /\ smoothed_crops[1].method = "interpolated"

SameFrameTwice ==
    /\ Len(frame_analyses) = 2
    /\ frame_analyses[1].frame_idx = frame_analyses[2].frame_idx

\* C6 as stated: for two analyses A and B with the same frame index the
\* smoother returns exactly one crop, and it equals the first analysis's crop.
C6_DuplicateYieldsFirst ==
    (Smoothed /\ SameFrameTwice) =>
       /\ Len(smoothed_crops) = 1
       /\ SameCrop(smoothed_crops[1], frame_analyses[1].crop_info)
       /\ smoothed_crops[1].method = frame_analyses[1].crop_info.method

\* C6 amended: for two analyses A and B with the same frame index the
\* smoother divides by nothing and returns exactly one crop, and it equals
\* the last analysis's crop (B.crop, with B.crop's method).
C6_DuplicateYieldsLast ==
    (Smoothed /\ SameFrameTwice) =>
       /\ Len(smoothed_crops) = 1
       /\ smoothed_crops[1].frame_idx = frame_analyses[2].frame_idx
       /\ SameCrop(smoothed_crops[1], frame_analyses[2].crop_info)
       /\ smoothed_crops[1].confidence.den = 1
       /\ smoothed_crops[1].method = frame_analyses[2].crop_info.method

\* two samples on the same frame with different crops
C6_Witness ==
    /\ Smoothed
    /\ SameFrameTwice
    /\ frame_analyses[1].crop_info.x # frame_analyses[2].crop_info.x
    /\ frame_analyses[1].crop_info.method # frame_analyses[2].crop_info.method
    /\ Len(smoothed_crops) = 1

----------------------------------------------------------------------------
(* Properties of the driver (Spec) *)

\* C7: after process_video_autoflip has read a video of N >= 1 frames,
\* smoothed_crops holds exactly one crop for every frame index 0..N-1.
C7_OneCropPerVideoFrame ==
    (pc = "returned" /\ frame_count >= 1) =>
       /\ Len(smoothed_crops) = frame_count
       /\ \A k \in 1..frame_count : smoothed_crops[k].frame_idx = k - 1

\* C8: if the input path does not exist or the stream cannot be opened the
\* run ends with exit code 1, no frame is analysed and the output file is
\* never written; the file is written only on a run that opened the input.
C8_NoOutputOnInputError ==
    /\ (~input_exists \/ ~can_open) =>
          /\ ~output_written
          /\ frame_analyses = <<>>
          /\ pc = "exit" => exit_code = 1
    /\ output_written => (input_exists /\ can_open /\ cap = "released")
    /\ (pc = "exit" /\ exit_code = 0) => output_written

\* the run has ended on a file that exists and cannot be opened as a video
C8_Witness ==
    /\ pc = "exit"
    /\ input_exists /\ ~can_open
    /\ exit_code = 1
    /\ ~output_written

\* C9: on every path by which process_video_autoflip returns (the success
\* path and the early return when the video cannot be opened) the stream
\* handle created at the start has been released.
C9_HandleReleasedOnReturn ==
    pc \in {"returned", "failed"} => cap = "released"

----------------------------------------------------------------------------
(* The salient centre and the planned window (SpecCrop) *)

\* 0 <= center <= 1 on both axes, center = origin + extent / 2
CentreInFrame(sal) ==
    /\ 0 <= 2 * sal.bbox[1] + sal.bbox[3] /\ 2 * sal.bbox[1] + sal.bbox[3] <= 2 * sal.den
    /\ 0 <= 2 * sal.bbox[2] + sal.bbox[4] /\ 2 * sal.bbox[2] + sal.bbox[4] <= 2 * sal.den

\* the centre in pixels along one axis, times 2 * den
CentrePixels(origin, extent, frame_side) == (2 * origin + extent) * frame_side

\* start <= centre <= start + side, the centre given times 2 * den
WindowHolds(start, side, centre, den) ==
    /\ 2 * den * start <= centre
    /\ centre <= 2 * den * (start + side)

\* start <= centre, and centre <= start + side when side >= 2, else
\* centre < start + side / 2 + 1
WindowNearlyHolds(start, side, centre, den) ==
    /\ 2 * den * start <= centre
    /\ side >= 2 => centre <= 2 * den * (start + side)
    /\ side < 2 => centre - 2 * den * start < den * (side + 2)

\* C11 as stated: with a salient bbox whose centre lies in the frame, the
\* crop contains the centre on the cropped axis: x <= cx * frameWidth <=
\* x + width when the width is reduced, y <= cy * frameHeight <= y + height
\* when the height is reduced.
C11_CentreInsideCrop ==
    (Planned /\ salient_regions.present /\ CentreInFrame(salient_regions)) =>
       LET b == salient_regions.bbox
           den == salient_regions.den
           c == crop_info
       IN  /\ c.width < frame_width =>
                 WindowHolds(c.x, c.width, CentrePixels(b[1], b[3], frame_width), den)
           /\ c.height < frame_height =>
                 WindowHolds(c.y, c.height, CentrePixels(b[2], b[4], frame_height), den)

\* C11 amended: the crop contains the centre on the cropped axis whenever
\* the reduced side is at least 2 pixels, also when the window was clamped
\* at a frame edge; with a reduced side of 0 or 1 pixels the window still
\* starts at or before the centre, which lies less than side / 2 + 1 pixels
\* after the start.
C11_CentreInsideCropOfTwoPixels ==
    (Planned /\ salient_regions.present /\ CentreInFrame(salient_regions)) =>
       LET b == salient_regions.bbox
           den == salient_regions.den
           c == crop_info
       IN  /\ c.width < frame_width =>
                 WindowNearlyHolds(c.x, c.width, CentrePixels(b[1], b[3], frame_width), den)
           /\ c.height < frame_height =>
                 WindowNearlyHolds(c.y, c.height, CentrePixels(b[2], b[4], frame_height), den)

\* a window of two pixels or more clamped at the right edge of the frame,
\* its middle left of the centre
C11_Witness ==
    /\ Planned
    /\ salient_regions.present /\ CentreInFrame(salient_regions)
    /\ crop_info.width < frame_width /\ crop_info.width >= 2
    /\ crop_info.x > 0 /\ crop_info.x + crop_info.width = frame_width
    /\ CentrePixels(salient_regions.bbox[1], salient_regions.bbox[3], frame_width)
          > salient_regions.den * (2 * crop_info.x + crop_info.width)

====
